---- MODULE Spec2Model ----
(***************************************************************************)
(* Model of two units of TFX:                                              *)
(*   - tfx/orchestration/tfx_runner.py: TfxRunner construction             *)
(*     (validation of the launcher list and of the platform configs) and   *)
(*     find_component_launch_info;                                         *)
(*   - tfx/tools/cli/container_builder/buildspec.py: BuildSpec, the        *)
(*     load-or-generate helper for the skaffold build spec file.           *)
(* The two units share no state; each has its own specification            *)
(* (RunnerSpec, BuildSpecSpec) over the same tuple of variables.           *)
(***************************************************************************)
EXTENDS Integers, Sequences, FiniteSets, TLC

(***************************************************************************)
(* Bounds of the model.                                                    *)
(***************************************************************************)
\* longest SUPPORTED_LAUNCHER_CLASSES list a runner subclass declares
MaxLaunchers == 2
\* longest list of platform configs registered for one component id
MaxConfigs == 2

\* Python's None
NoneV == "None"

(***************************************************************************)
(* The runner's collaborators.                                             *)
(***************************************************************************)
\* classes that subclass base_component_launcher.BaseComponentLauncher
LauncherClasses == {"LauncherA", "LauncherB"}

\* what a subclass may (wrongly) put into SUPPORTED_LAUNCHER_CLASSES:
\* launcher classes and a class that is not a launcher
LauncherEntries == LauncherClasses \cup {"object"}

\* issubclass(cls, base_component_launcher.BaseComponentLauncher)
issubclass_BaseComponentLauncher(cls) == cls \in LauncherClasses

\* platform config instances; A1 and A2 are two instances of one class
PlatformConfigs == {"A1", "A2", "B1"}

\* type(platform_config)
type(platform_config) ==
  CASE platform_config \in {"A1", "A2"} -> "ConfigA"
    [] platform_config = "B1" -> "ConfigB"
    [] OTHER -> "NoneType"

\* the keys platform_configs may have: a component id, or the empty string
ComponentIdKeys == {"", "c1"}

\* the components passed to find_component_launch_info: c1 may have platform
\* configs registered, c2 never has
Components ==
  { [id |-> "c1", executor_spec |-> "E1"],
    [id |-> "c2", executor_spec |-> "E2"] }

\* BaseComponent.component_id: the component's id under its older name
BaseComponent_component_id(component) == component.id

\* sequences over S of length 0..n
SeqsUpTo(S, n) == UNION { [1..k -> S] : k \in 0..n }

\* the range of a sequence
Range(s) == { s[i] : i \in 1..Len(s) }

\* the dicts a caller may pass as platform_configs
PlatformConfigDicts ==
  UNION { [keys -> SeqsUpTo(PlatformConfigs, MaxConfigs)] :
          keys \in SUBSET ComponentIdKeys }

\* the empty dict {}
EmptyDict == [k \in {} |-> << >>]

\* the platform_configs argument: a dict, or None
PlatformConfigArgs ==
  { [is_None |-> FALSE, dict |-> d] : d \in PlatformConfigDicts }
    \cup { [is_None |-> TRUE, dict |-> EmptyDict] }

VARIABLES
  \* ---- TfxRunner ----
  runner_state,                 \* "unconstructed", "constructed", "failed"
  _supported_launcher_classes,  \* self._supported_launcher_classes
  _platform_configs,            \* self._platform_configs
  runner_raised,                \* exception __init__ raised, or NoneV
  find_call,                    \* last find_component_launch_info call
  launch_info,                  \* what that call returned or raised
  \* ---- BuildSpec ----
  file,                         \* the backing file: NoFile, or its YAML text
  constructions                 \* the BuildSpec(...) calls made so far, each
                                \* with the object's fields and the outcome

runner_vars == << runner_state, _supported_launcher_classes,
                  _platform_configs, runner_raised, find_call, launch_info >>

buildspec_vars == << file, constructions >>

vars == << runner_state, _supported_launcher_classes, _platform_configs,
           runner_raised, find_call, launch_info, file, constructions >>

(***************************************************************************)
(* TfxRunner.__init__ and its validators.                                  *)
(***************************************************************************)
\* the exception _validate_supported_launcher_classes raises, or NoneV
_validate_supported_launcher_classes(classes) ==
  IF Len(classes) = 0
  THEN "ValueError"
  ELSE IF \E i \in 1..Len(classes) :
            ~issubclass_BaseComponentLauncher(classes[i])
       THEN "TypeError"
       ELSE NoneV

\* bug: <= for <, which also rejects a list of configs of distinct types
Mutant_validate_platform_configs(platform_configs) ==
  IF \E component_id \in DOMAIN platform_configs :
       \/ component_id = ""
       \/ Cardinality({ type(platform_configs[component_id][i]) :
                        i \in 1..Len(platform_configs[component_id]) })
            <= Len(platform_configs[component_id])
  THEN "ValueError"
  ELSE NoneV

\* the exception _validate_platform_configs raises, or NoneV. Both raises of
\* the loop are ValueError, so the iteration order of the dict does not show.
_validate_platform_configs(platform_configs) ==
  IF \E component_id \in DOMAIN platform_configs :
       \/ component_id = ""
       \/ Cardinality({ type(platform_configs[component_id][i]) :
                        i \in 1..Len(platform_configs[component_id]) })
            < Len(platform_configs[component_id])
  THEN "ValueError"
  ELSE NoneV

\* platform_configs or {}: None and the empty dict are both falsy
OrEmptyDict(platform_configs_arg) ==
  IF platform_configs_arg.is_None \/ DOMAIN platform_configs_arg.dict = {}
  THEN EmptyDict
  ELSE platform_configs_arg.dict

\* the exception TfxRunner.__init__ raises, or NoneV
Runner_init_raises(classes, platform_configs) ==
  IF _validate_supported_launcher_classes(classes) # NoneV
  THEN _validate_supported_launcher_classes(classes)
  ELSE _validate_platform_configs(platform_configs)

NoCall == [called |-> FALSE,
           component |-> [id |-> NoneV, executor_spec |-> NoneV],
           can_launch |-> {}]
NoInfo == [raised |-> NoneV, launcher_class |-> NoneV,
           platform_config |-> NoneV, message |-> << >>]

\* TfxRunner.__init__(platform_configs) of a subclass whose
\* SUPPORTED_LAUNCHER_CLASSES is classes; it runs once, on the new object
Runner_init(classes, platform_configs_arg) ==
  LET pcs == OrEmptyDict(platform_configs_arg)
      exc == Runner_init_raises(classes, pcs)
  IN /\ runner_state = "unconstructed"
     /\ _supported_launcher_classes' = classes
     /\ _platform_configs' = pcs
     /\ runner_raised' = exc
     /\ runner_state' = IF exc = NoneV THEN "constructed" ELSE "failed"
     /\ find_call' = NoCall
     /\ launch_info' = NoInfo
     /\ UNCHANGED buildspec_vars

(***************************************************************************)
(* TfxRunner.find_component_launch_info.                                   *)
(***************************************************************************)
\* component_launcher_class.can_launch(executor_spec, platform_config)
can_launch(table, cls, executor_spec, platform_config) ==
  << cls, executor_spec, platform_config >> \in table

\* the candidate configs: those registered for the component, then None
CandidateConfigs(platform_configs, component) ==
  IF component.id \in DOMAIN platform_configs
  THEN platform_configs[component.id] \o << NoneV >>
  ELSE << NoneV >>

\* bug: the last launcher class that can launch wins, not the first
MutantLast_ScanLaunchers(classes, j, table, executor_spec, platform_config) ==
  LET ks == { k \in j..Len(classes) :
                can_launch(table, classes[k], executor_spec, platform_config) }
  IN IF ks = {} THEN 0 ELSE CHOOSE k \in ks : \A m \in ks : m <= k

\* the inner loop, from position j: the index of the first launcher class
\* that can launch under platform_config, 0 when none can
RECURSIVE ScanLaunchers(_, _, _, _, _)
ScanLaunchers(classes, j, table, executor_spec, platform_config) ==
  IF j > Len(classes)
  THEN 0
  ELSE IF can_launch(table, classes[j], executor_spec, platform_config)
       THEN j
       ELSE ScanLaunchers(classes, j + 1, table, executor_spec,
                          platform_config)

\* the outer loop, from position i of the candidate configs
RECURSIVE ScanConfigs(_, _, _, _, _)
ScanConfigs(classes, configs, i, table, component) ==
  IF i > Len(configs)
  THEN [raised |-> "RuntimeError", launcher_class |-> NoneV,
        platform_config |-> NoneV,
        message |-> << "No launcher can launch component",
                       BaseComponent_component_id(component) >>]
  ELSE LET j == ScanLaunchers(classes, 1, table, component.executor_spec,
                              configs[i])
       IN IF j # 0
          THEN [raised |-> NoneV, launcher_class |-> classes[j],
                platform_config |-> configs[i], message |-> << >>]
          ELSE ScanConfigs(classes, configs, i + 1, table, component)

\* bug: the loops are nested the other way round, launcher classes outermost
MutantLauncherMajor_find(classes, platform_configs, component, table) ==
  LET configs == CandidateConfigs(platform_configs, component)
      can(j, i) == can_launch(table, classes[j], component.executor_spec,
                              configs[i])
      js == { j \in 1..Len(classes) : \E i \in 1..Len(configs) : can(j, i) }
  IN IF js = {}
     THEN ScanConfigs(classes, configs, 1, table, component)
     ELSE LET j == CHOOSE k \in js : \A m \in js : k <= m
              is == { i \in 1..Len(configs) : can(j, i) }
              i == CHOOSE k \in is : \A m \in is : k <= m
          IN [raised |-> NoneV, launcher_class |-> classes[j],
              platform_config |-> configs[i], message |-> << >>]

\* bug: when nothing matches, the first launcher class is returned with no
\* config instead of raising
MutantNoRaise_find(classes, platform_configs, component, table) ==
  LET found == ScanConfigs(classes,
                           CandidateConfigs(platform_configs, component), 1,
                           table, component)
  IN IF found.raised = NoneV
     THEN found
     ELSE [raised |-> NoneV, launcher_class |-> classes[1],
           platform_config |-> NoneV, message |-> << >>]

find_component_launch_info(classes, platform_configs, component, table) ==
  ScanConfigs(classes, CandidateConfigs(platform_configs, component), 1,
              table, component)

\* the answers the launchers' can_launch may give to the calls one lookup can
\* make: the set of <<launcher class, executor spec, platform config or None>>
\* that report True, over the runner's classes and the component's candidates
CanLaunchTables(classes, platform_configs, component) ==
  SUBSET (Range(classes) \X {component.executor_spec}
            \X Range(CandidateConfigs(platform_configs, component)))

\* a call of find_component_launch_info on the constructed runner
Find(component, table) ==
  /\ runner_state = "constructed"
  /\ find_call' = [called |-> TRUE, component |-> component,
                   can_launch |-> table]
  /\ launch_info' = find_component_launch_info(
                      _supported_launcher_classes, _platform_configs,
                      component, table)
  /\ UNCHANGED << runner_state, _supported_launcher_classes,
                  _platform_configs, runner_raised >>
  /\ UNCHANGED buildspec_vars

(***************************************************************************)
(* Python values and YAML text, as far as BuildSpec needs them.            *)
(***************************************************************************)
\* a Python str
PyStr(s) == [py |-> "str", v |-> s]

\* None, as a value of the same shape
PyNone == [py |-> "NoneType", v |-> "None"]

\* YAML's implicit resolver on the text of a plain scalar: the type that
\* yaml.safe_load gives it
ImplicitResolve(text) ==
  CASE text \in {"2020", "123"} -> "int"
    [] text \in {"", "~", "null"} -> "NoneType"
    [] text \in {"true", "false"} -> "bool"
    [] OTHER -> "str"

\* yaml.dump of a str: plain when the plain text resolves to a str again,
\* quoted otherwise
DumpScalar(value) ==
  [style |-> IF ImplicitResolve(value.v) = "str" THEN "plain" ELSE "quoted",
   text |-> value.v]

\* yaml.safe_load of a scalar: a quoted scalar is a str, a plain one is what
\* the implicit resolver says
LoadScalar(node) ==
  IF node.style = "quoted"
  THEN PyStr(node.text)
  ELSE IF ImplicitResolve(node.text) = "NoneType"
       THEN PyNone
       ELSE [py |-> ImplicitResolve(node.text), v |-> node.text]

\* yaml.dump of one entry of build.artifacts
DumpArtifact(artifact) ==
  [image |-> DumpScalar(artifact.image),
   workspace |-> DumpScalar(artifact.workspace),
   docker |-> [dockerfile |-> DumpScalar(artifact.docker.dockerfile)]]

\* yaml.safe_load of one entry of build.artifacts
LoadArtifact(node) ==
  [image |-> LoadScalar(node.image),
   workspace |-> LoadScalar(node.workspace),
   docker |-> [dockerfile |-> LoadScalar(node.docker.dockerfile)]]

\* yaml.dump(self._buildspec, f): the text of the build spec
yaml_dump(buildspec) ==
  [apiVersion |-> DumpScalar(buildspec.apiVersion),
   kind |-> DumpScalar(buildspec.kind),
   build |-> [artifacts |->
     [i \in 1..Len(buildspec.build.artifacts) |->
        DumpArtifact(buildspec.build.artifacts[i])]]]

\* yaml.safe_load(f): the dict the text of a build spec stands for
yaml_safe_load(text) ==
  [apiVersion |-> LoadScalar(text.apiVersion),
   kind |-> LoadScalar(text.kind),
   build |-> [artifacts |->
     [i \in 1..Len(text.build.artifacts) |->
        LoadArtifact(text.build.artifacts[i])]]]

(***************************************************************************)
(* BuildSpec.                                                              *)
(***************************************************************************)
\* most BuildSpec(...) calls of one run
MaxConstructions == 3
\* most entries of build.artifacts in a file that was there before the run
MaxArtifacts == 2

\* commons.SKAFFOLD_API_VERSION
SKAFFOLD_API_VERSION == "skaffold/v1beta13"
\* commons.BUILD_SPEC_FILENAME
BUILD_SPEC_FILENAME == "build.yaml"
\* commons.BUILD_CONTEXT
BUILD_CONTEXT == "."
\* commons.DOCKERFILE_NAME
DOCKERFILE_NAME == "Dockerfile"

\* the backing file does not exist
NoFile == [exists |-> FALSE]

\* self._buildspec was never assigned
NoBuildSpec == [unset |-> TRUE]

\* os.path.exists(self.filename)
os_path_exists(f) == f # NoFile

\* the arguments a caller passes
TargetImages == {PyNone, PyStr("gcr.io/proj/img"), PyStr("123")}
BuildContexts == {PyStr(BUILD_CONTEXT), PyStr("2020")}
DockerfileNames == {PyStr(DOCKERFILE_NAME), PyStr("Dockerfile.dev")}

\* entries of build.artifacts as a user writes them by hand
HandWrittenArtifacts ==
  { [image |-> [style |-> "plain", text |-> "gcr.io/proj/old"],
     workspace |-> [style |-> "plain", text |-> w],
     docker |-> [dockerfile |-> [style |-> "plain", text |-> "Dockerfile"]]] :
    w \in {"src", "2020"} }

\* build spec files that are there before the run
ExistingFiles ==
  { [apiVersion |-> [style |-> "plain", text |-> SKAFFOLD_API_VERSION],
     kind |-> [style |-> "plain", text |-> "Config"],
     build |-> [artifacts |-> artifacts]] :
    artifacts \in SeqsUpTo(HandWrittenArtifacts, MaxArtifacts) }

\* fmt % args for a format of `placeholders` conversions %s; a right operand
\* that is not a tuple counts as one argument
PercentFormat(fmt, placeholders, args) ==
  IF Len(args) < placeholders
  THEN [raised |-> "TypeError", text |-> << >>]    \* not enough arguments
  ELSE IF Len(args) > placeholders
       THEN [raised |-> "TypeError", text |-> << >>]  \* not all converted
       ELSE [raised |-> NoneV, text |-> << fmt >> \o args]

\* the object at line 47 of __init__, before either path is taken
NewBuildSpec(f, filename, target_image, build_context, dockerfile_name) ==
  [filename |-> filename,
   build_context |-> build_context,
   target_image |-> target_image,
   _buildspec |-> NoBuildSpec,
   \* what the call was given and what it did
   build_context_arg |-> build_context,
   dockerfile_name |-> dockerfile_name,
   exists |-> os_path_exists(f),
   echoed |-> << >>,
   raised |-> NoneV]

\* BuildSpec._read_existing_build_spec: the object when it returns or raises.
\* The file is opened for reading only.
_read_existing_build_spec(self, f) ==
  LET reading == PercentFormat("Reading build spec from %s", 1,
                               << self.filename >>)
      \* lines 61-64: the format has two %s and one operand, self.target_image;
      \* self.filename is the second argument of click.echo, its `file`
      warning == PercentFormat("Target image %s is not used ... file %s.", 2,
                               << self.target_image >>)
      loaded == yaml_safe_load(f)
  IN IF self.target_image # PyNone /\ warning.raised # NoneV
     THEN [self EXCEPT !.echoed = << reading.text >>,
                       !.raised = warning.raised]
     ELSE IF self.target_image # PyNone
     THEN \* click.echo(message, file=<a str>): a str has no write()
          [self EXCEPT !.echoed = << reading.text >>,
                       !.raised = "AttributeError"]
     ELSE IF Len(loaded.build.artifacts) # 1
     THEN [self EXCEPT !.echoed = << reading.text >>,
                       !._buildspec = loaded,
                       !.raised = "RuntimeError"]
     ELSE [self EXCEPT !.echoed = << reading.text >>,
                       !._buildspec = loaded,
                       !.build_context = loaded.build.artifacts[1].workspace]

\* bug: the workspace is the default build context, not self.build_context
Mutant_default_build_spec(self, dockerfile_name) ==
  [apiVersion |-> PyStr(SKAFFOLD_API_VERSION),
   kind |-> PyStr("Config"),
   build |-> [artifacts |-> <<
     [image |-> self.target_image,
      workspace |-> PyStr(BUILD_CONTEXT),
      docker |-> [dockerfile |-> dockerfile_name]] >>]]

\* the dict BuildSpec._generate_default builds
default_build_spec(self, dockerfile_name) ==
  [apiVersion |-> PyStr(SKAFFOLD_API_VERSION),
   kind |-> PyStr("Config"),
   build |-> [artifacts |-> <<
     [image |-> self.target_image,
      workspace |-> self.build_context,
      docker |-> [dockerfile |-> dockerfile_name]] >>]]

\* BuildSpec._generate_default: the object, and the file it writes
_generate_default(self, dockerfile_name) ==
  [self |-> [self EXCEPT !._buildspec =
                           default_build_spec(self, dockerfile_name)],
   file |-> yaml_dump(default_build_spec(self, dockerfile_name))]

\* bug: the check of target_image is missing
MutantNoCheck_BuildSpec_init(f, filename, target_image, build_context, dockerfile_name) ==
  LET self == NewBuildSpec(f, filename, target_image, build_context,
                           dockerfile_name)
  IN IF os_path_exists(f)
     THEN [self |-> _read_existing_build_spec(self, f), file |-> f]
     ELSE _generate_default(self, dockerfile_name)

\* bug: a default build spec is generated over a file that is there
MutantOverwrite_BuildSpec_init(f, filename, target_image, build_context, dockerfile_name) ==
  LET self == NewBuildSpec(f, filename, target_image, build_context,
                           dockerfile_name)
  IN IF target_image = PyNone /\ os_path_exists(f)
     THEN [self |-> _read_existing_build_spec(self, f), file |-> f]
     ELSE IF target_image = PyNone
     THEN [self |-> [self EXCEPT !.raised = "ValueError"], file |-> f]
     ELSE _generate_default(self, dockerfile_name)

\* BuildSpec.__init__: the object when it returns or raises, and the file
BuildSpec_init(f, filename, target_image, build_context, dockerfile_name) ==
  LET self == NewBuildSpec(f, filename, target_image, build_context,
                           dockerfile_name)
  IN IF os_path_exists(f)
     THEN [self |-> _read_existing_build_spec(self, f), file |-> f]
     ELSE IF target_image = PyNone
     THEN [self |-> [self EXCEPT !.raised = "ValueError"], file |-> f]
     ELSE _generate_default(self, dockerfile_name)

\* one BuildSpec(filename, target_image, build_context, dockerfile_name) call
Construct(target_image, build_context, dockerfile_name) ==
  LET done == BuildSpec_init(file, BUILD_SPEC_FILENAME, target_image,
                             build_context, dockerfile_name)
  IN /\ Len(constructions) < MaxConstructions
     /\ constructions' = Append(constructions, done.self)
     /\ file' = done.file
     /\ UNCHANGED runner_vars

RunnerInit ==
  /\ runner_state = "unconstructed"
  /\ _supported_launcher_classes = << >>
  /\ _platform_configs = EmptyDict
  /\ runner_raised = NoneV
  /\ find_call = NoCall
  /\ launch_info = NoInfo
  /\ file = NoFile
  /\ constructions = << >>

ConstructRunner ==
  \E classes \in SeqsUpTo(LauncherEntries, MaxLaunchers) :
    \E platform_configs \in PlatformConfigArgs :
      Runner_init(classes, platform_configs)

FindLaunchInfo ==
  \E component \in Components :
    \E table \in CanLaunchTables(_supported_launcher_classes,
                                  _platform_configs, component) :
      Find(component, table)

RunnerNext == ConstructRunner \/ FindLaunchInfo

RunnerSpec == RunnerInit /\ [][RunnerNext]_vars

BuildSpecInit ==
  /\ runner_state = "unconstructed"
  /\ _supported_launcher_classes = << >>
  /\ _platform_configs = EmptyDict
  /\ runner_raised = NoneV
  /\ find_call = NoCall
  /\ launch_info = NoInfo
  /\ file \in {NoFile} \cup ExistingFiles
  /\ constructions = << >>

ConstructBuildSpec ==
  \E target_image \in TargetImages :
    \E build_context \in BuildContexts :
      \E dockerfile_name \in DockerfileNames :
        Construct(target_image, build_context, dockerfile_name)

BuildSpecNext == ConstructBuildSpec

BuildSpecSpec == BuildSpecInit /\ [][BuildSpecNext]_vars

(***************************************************************************)
(* Properties of TfxRunner (checked under RunnerSpec).                     *)
(***************************************************************************)
\* the configs registered for the component of the last lookup
Registered ==
  IF find_call.component.id \in DOMAIN _platform_configs
  THEN _platform_configs[find_call.component.id]
  ELSE << >>

\* the candidates of the last lookup: the registered configs, then None
Candidates == Registered \o << NoneV >>

\* launcher j of the preference list reports can_launch under candidate i
Can(i, j) ==
  << _supported_launcher_classes[j], find_call.component.executor_spec,
     Candidates[i] >> \in find_call.can_launch

\* position (i2, j2) is tried before (i, j) when configs are the outer loop
Before(i2, j2, i, j) == i2 < i \/ (i2 = i /\ j2 < j)

\* the last lookup returned a pair
Returned == find_call.called /\ launch_info.raised = NoneV

C3_RuntimeErrorWhenNoMatch ==
  ( /\ find_call.called
    /\ \A i \in 1..Len(Candidates) :
         \A j \in 1..Len(_supported_launcher_classes) : ~Can(i, j) )
  => /\ launch_info.raised = "RuntimeError"
     /\ Len(launch_info.message) = 2
     /\ launch_info.message[2] = find_call.component.id

\* C3 witness: a lookup for a component with a registered config raised
C3_Witness ==
  /\ find_call.called
  /\ launch_info.raised = "RuntimeError"
  /\ Len(Registered) >= 1
  /\ Len(_supported_launcher_classes) = 2

\* the runner is constructible by the four conditions of the claim
C4_Conditions ==
  /\ Len(_supported_launcher_classes) > 0
  /\ \A i \in 1..Len(_supported_launcher_classes) :
       _supported_launcher_classes[i] \in LauncherClasses
  /\ \A component_id \in DOMAIN _platform_configs : component_id # ""
  /\ \A component_id \in DOMAIN _platform_configs :
       \A i, j \in 1..Len(_platform_configs[component_id]) :
         i # j => type(_platform_configs[component_id][i])
                    # type(_platform_configs[component_id][j])

\* C4: construction succeeds exactly when the launcher list is non-empty,
\* every entry is a launcher class, no key of platform_configs is empty and
\* no component id has two configs of one type; an empty launcher list always
\* fails and an empty list of configs is accepted.
C4_ConstructionIffValid ==
  runner_state # "unconstructed" =>
    /\ (runner_raised = NoneV) <=> C4_Conditions
    /\ (runner_state = "constructed") <=> (runner_raised = NoneV)
    /\ Len(_supported_launcher_classes) = 0 => runner_raised # NoneV

\* C4 witness: a runner was constructed with a component id mapped to an
\* empty list of configs
C4_Witness ==
  /\ runner_state = "constructed"
  /\ "c1" \in DOMAIN _platform_configs
  /\ _platform_configs["c1"] = << >>

\* the positions of the preference list whose class can launch under some
\* candidate config
C9_CapableAnywhere ==
  { j \in 1..Len(_supported_launcher_classes) :
      \E i \in 1..Len(Candidates) : Can(i, j) }

C9_ReturnedConfigAt(i) ==
  /\ i \in 1..Len(Candidates)
  /\ Candidates[i] = launch_info.platform_config

IsConstruction == Len(constructions') = Len(constructions) + 1
Made == constructions'[Len(constructions')]

\* the step's call emitted the warning about the ignored target image
WarningEchoed == Len(Made.echoed) = 2

\* C2 as claimed: on an existing file with one artifact, a construction with
\* a target image echoes the warning and loads: nothing is raised and
\* build_context is the workspace of the file's artifact.
C2_WarnsAndLoads ==
  [][ ( /\ IsConstruction
        /\ os_path_exists(file)
        /\ Len(file.build.artifacts) = 1
        /\ Made.target_image # PyNone )
      => /\ Made.raised = NoneV
         /\ WarningEchoed
         /\ Made.build_context =
              yaml_safe_load(file).build.artifacts[1].workspace ]_vars

\* C5 as claimed: on an existing file whose artifact count is not 1 the
\* construction raises RuntimeError; with exactly one artifact and no target
\* image it does not.
C5_RuntimeErrorIffNotOneArtifact ==
  [][ (IsConstruction /\ os_path_exists(file))
      => /\ Len(file.build.artifacts) # 1 => Made.raised = "RuntimeError"
         /\ (Len(file.build.artifacts) = 1 /\ Made.target_image = PyNone)
              => Made.raised # "RuntimeError" ]_vars

\* C6: with no backing file and no target image the construction raises
\* ValueError and no file is created.
C6_ValueErrorAndNoFile ==
  [][ ( /\ IsConstruction
        /\ ~os_path_exists(file)
        /\ Made.target_image = PyNone )
      => /\ Made.raised = "ValueError"
         /\ file' = NoFile ]_vars

\* C6 witness: such a construction was made, with arguments other than the
\* defaults
C6_Witness ==
  /\ file = NoFile
  /\ \E i \in 1..Len(constructions) :
       /\ constructions[i].raised = "ValueError"
       /\ constructions[i].build_context_arg # PyStr(BUILD_CONTEXT)
       /\ constructions[i].dockerfile_name # PyStr(DOCKERFILE_NAME)

\* C7: with no backing file and a target image the construction writes a
\* file with exactly one artifact, of the given image, build context and
\* Dockerfile name, and the in-memory build spec is what the file holds.
C7_GeneratesDefault ==
  [][ ( /\ IsConstruction
        /\ ~os_path_exists(file)
        /\ Made.target_image # PyNone )
      => /\ Made.raised = NoneV
         /\ os_path_exists(file')
         /\ Len(yaml_safe_load(file').build.artifacts) = 1
         /\ yaml_safe_load(file').build.artifacts[1].image = Made.target_image
         /\ yaml_safe_load(file').build.artifacts[1].workspace
              = Made.build_context_arg
         /\ yaml_safe_load(file').build.artifacts[1].docker.dockerfile
              = Made.dockerfile_name
         /\ Made._buildspec = yaml_safe_load(file') ]_vars

\* C7 witness: a file was generated from an image, a build context and a
\* Dockerfile name that YAML has to quote or that are not the defaults
C7_Witness ==
  /\ os_path_exists(file)
  /\ \E i \in 1..Len(constructions) :
       /\ ~constructions[i].exists
       /\ constructions[i].raised = NoneV
       /\ constructions[i].target_image = PyStr("123")
       /\ constructions[i].build_context_arg = PyStr("2020")
       /\ constructions[i].dockerfile_name = PyStr("Dockerfile.dev")

\* construction i generated the backing file
Generated(i) == ~constructions[i].exists /\ constructions[i].raised = NoneV

\* C8 as claimed: any construction after the one that generated the file
\* loads it and has the build context the file was generated with.
C8_RoundTrip ==
  \A i \in 1..Len(constructions) :
    \A j \in (i + 1)..Len(constructions) :
      Generated(i) =>
        /\ constructions[j].raised = NoneV
        /\ constructions[j].build_context = constructions[i].build_context_arg

\* C10: once the backing file exists, no construction changes it.
C10_FileWrittenAtMostOnce ==
  [][ os_path_exists(file) => file' = file ]_vars

\* C10 witness: the file was generated, then a construction failed on it and
\* another one loaded it
C10_Witness ==
  /\ Len(constructions) = 3
  /\ Generated(1)
  /\ constructions[2].raised # NoneV
  /\ constructions[3].raised = NoneV
  /\ os_path_exists(file)

====
